---- MODULE Spec2Model ----
(***************************************************************************)
(* The interval timer engine of Study-Buddy (the Timer component of        *)
(* src/src/components/Navigation.tsx) as a state machine.                  *)
(*                                                                         *)
(* The component is a React function component.  Its state lives in        *)
(* useState cells and useRef cells; every render creates a fresh set of    *)
(* closures over the values of that render.  The model keeps               *)
(*   st        the values of the last committed render (what the closures  *)
(*             of that render see),                                        *)
(*   nx        the values the queued setState calls lead to (st # nx means *)
(*             a render is scheduled),                                     *)
(*   the refs  phaseStartEpochMsRef and tickIntervalRef                    *)
(*             (focusStartTimeRef only feeds start_time of the inserted    *)
(*             row, which the rows of the model do not carry),             *)
(*   tickEnv / visEnv  the render values captured by the interval callback *)
(*             and by the visibility listener when their effect last ran,  *)
(*   store     localStorage, one slot per state key,                       *)
(* and the records inserted into pomodoro_sessions / rewards.              *)
(* Clicks, the mount and the resolution of getUser() render synchronously  *)
(* (handler, render and effects are one step); the interval callback and   *)
(* the visibilitychange listener only queue updates, and the render is a   *)
(* later step (Render), so the two may interleave.  The user and the clock *)
(* act once the getUser() promise of the mount has resolved and no render  *)
(* is pending; a reload may happen at any moment.                          *)
(***************************************************************************)
EXTENDS Integers, Sequences, FiniteSets, TLC

VARIABLES
    now,            \* Date.now(), in milliseconds
    preferences,    \* the preferences prop of the mounted Timer
    authUser,       \* the user supabase.auth.getUser() yields (0: none)
    userPending,    \* the getUser() promise of the mount effect is not yet resolved
    st,             \* state values of the last committed render
    nx,             \* state values after the queued updates
    epochRef,       \* phaseStartEpochMsRef.current
    tick,           \* tickIntervalRef.current !== null (the interval is armed)
    tickEnv,        \* render values captured by the interval callback
    visEnv,         \* render values captured by the visibility listener
    store,          \* localStorage: state key -> <<>> or <<snapshot>>
    sessions,       \* rows the last step inserted into pomodoro_sessions: count, duration
    streakUpdates,  \* writes of the last step to the rewards table
    completions,    \* calls of handlePhaseComplete made by the last step
    remoteFailed,   \* the last step called supabase and the calls failed
    lastOp,         \* the operation the last step performed
    remainingAtPause, \* time left on the countdown when the user paused it (else Null)
    stepsLeft,      \* coarse clock steps still allowed
    fineLeft,       \* sub-minute clock steps still allowed
    reloadsLeft,    \* page reloads still allowed
    today,          \* the calendar day (a day number)
    rewards,        \* the user's row of the rewards table: <<>> or <<row>>
    studyDays,      \* the days on which a focus phase was completed
    storeWritable,  \* localStorage.setItem succeeds (else it throws)
    onboarding,     \* state of the Onboarding component and what it persisted
    progress        \* state of the Progress component

vars == <<now, preferences, authUser, userPending, st, nx, epochRef,
          tick, tickEnv, visEnv, store, sessions, streakUpdates, completions, remoteFailed, lastOp,
          remainingAtPause, stepsLeft, fineLeft, reloadsLeft,
          today, rewards, studyDays, storeWritable, onboarding, progress>>

\* the state outside the Timer component
pageVars == <<today, rewards, studyDays, storeWritable, onboarding, progress>>

----------------------------------------------------------------------------
(* Bounds of the model *)

MaxSteps == 4           \* the clock takes at most this many coarse steps
MaxFine == 1            \* at most this many sub-minute clock steps
MaxReloads == 1         \* at most this many page reloads
StartEpoch == 6000000   \* Date.now() when the model starts
StepFine == 500         \* the sub-second clock step, in ms
StepMinute == 60000     \* the coarse clock step in pomodoro mode, in ms
StepCustom == 300000    \* the coarse clock step in custom mode, in ms
MaxDays == 5            \* the calendar advances by at most this many days
LiveSteps == 5          \* coarse clock steps until the horizon of the liveness check

(* Program constants *)

Null == -1              \* null (a ref or a snapshot field)
Guest == 0              \* no user id: the guest namespace
MsPerSecond == 1000
SecondsPerMinute == 60
DefaultCustomMinutes == 25
DefaultFocus == 25
DefaultShortBreak == 5
DefaultLongBreak == 15
DefaultSessions == 4

UserIds == {1, 2}
Keys == {Guest} \cup UserIds
Phases == {"focus", "shortBreak", "longBreak"}

Max(a, b) == IF a >= b THEN a ELSE b
Min(a, b) == IF a <= b THEN a ELSE b

\* Math.round(a / b) for b > 0: round half up
Round(a, b) == (2 * a + b) \div (2 * b)

\* JavaScript truthiness of a number | null
Truthy(x) == x # Null /\ x # 0

\* x || d on numbers
OrElse(x, d) == IF x = 0 THEN d ELSE x

\* { ...rec, ...ovr }
Merge(rec, ovr) == [k \in DOMAIN rec |-> IF k \in DOMAIN ovr THEN ovr[k] ELSE rec[k]]

clamp(value, min, max) == Max(min, Min(max, value))

----------------------------------------------------------------------------
(* The preferences the model draws from *)

PomodoroPrefs ==
    [studyMethod |-> "pomodoro", focusTime |-> 2, shortBreak |-> 1, longBreak |-> 3,
     sessionsUntilLongBreak |-> 2, subjects |-> <<"s1">>]

\* focus and short break of the same length
EvenPrefs ==
    [studyMethod |-> "pomodoro", focusTime |-> 1, shortBreak |-> 1, longBreak |-> 2,
     sessionsUntilLongBreak |-> 2, subjects |-> <<"s1">>]

CustomPrefs ==
    [studyMethod |-> "custom", focusTime |-> 2, shortBreak |-> 1, longBreak |-> 3,
     sessionsUntilLongBreak |-> 2, subjects |-> <<"s1">>]

PrefsSet == {PomodoroPrefs, EvenPrefs, CustomPrefs}

\* values typed into the custom-minutes input
CustomInputs == {3, 5}

\* '' : no subject id
NoSubject == ""

hasSubjects(p) == Len(p.subjects) > 0
defaultSubjectId(p) == IF hasSubjects(p) THEN p.subjects[1] ELSE NoSubject

\* the useState initialisers of the session title and type
DefaultTitle == "Focus Session"
DefaultType == "study"

\* x || d on strings
OrElseStr(x, d) == IF x = "" THEN d ELSE x

isPomodoro(p) == p.studyMethod = "pomodoro"
focusMinutes(p) == clamp(OrElse(p.focusTime, DefaultFocus), 1, 180)
shortBreakMinutes(p) == clamp(OrElse(p.shortBreak, DefaultShortBreak), 1, 60)
longBreakMinutes(p) == clamp(OrElse(p.longBreak, DefaultLongBreak), 1, 120)
sessionsUntilLongBreak(p) == clamp(OrElse(p.sessionsUntilLongBreak, DefaultSessions), 1, 12)

\* the useMemo of a render with state values s under preferences p
phaseDurationSeconds(s, p) ==
    IF ~isPomodoro(p) THEN s.customMinutes * SecondsPerMinute
    ELSE IF s.phase = "focus" THEN focusMinutes(p) * SecondsPerMinute
    ELSE IF s.phase = "shortBreak" THEN shortBreakMinutes(p) * SecondsPerMinute
    ELSE longBreakMinutes(p) * SecondsPerMinute

stateKey(s) == s.userId

----------------------------------------------------------------------------
(* The machine record m threads the mutable cells through the code of one  *)
(* handler or effect.  env is the record of state values of the render     *)
(* whose closure is running.                                               *)

\* no row inserted
NoSessions == [count |-> 0, duration |-> 0, subject_id |-> NoSubject]

\* persistState without the try block: a failed write ends the caller and
\* the updates it queued are lost
persistState_Throws(m, env, override) ==
    LET state == [phase |-> env.phase,
                  isRunning |-> env.isRunning,
                  customMinutes |-> env.customMinutes,
                  selectedSubjectId |-> env.selectedSubjectId,
                  sessionTitle |-> env.sessionTitle,
                  sessionType |-> env.sessionType,
                  completedFocusCount |-> env.completedFocusCount,
                  phaseDurationSeconds |-> phaseDurationSeconds(env, m.prefs),
                  remainingSeconds |-> env.remainingSeconds,
                  phaseStartEpochMs |-> m.epochRef,
                  isPomodoro |-> isPomodoro(m.prefs),
                  writtenBy |-> m.authUser]
    IN IF m.storeWritable
       THEN [m EXCEPT !.store[stateKey(env)] = <<Merge(state, override)>>]
       ELSE [m EXCEPT !.nx = m.st]

\* persistState(override), called from the closure of a render with values env
persistState(m, env, override) ==
    LET state == [phase |-> env.phase,
                  isRunning |-> env.isRunning,
                  customMinutes |-> env.customMinutes,
                  selectedSubjectId |-> env.selectedSubjectId,
                  sessionTitle |-> env.sessionTitle,
                  sessionType |-> env.sessionType,
                  completedFocusCount |-> env.completedFocusCount,
                  phaseDurationSeconds |-> phaseDurationSeconds(env, m.prefs),
                  remainingSeconds |-> env.remainingSeconds,
                  phaseStartEpochMs |-> m.epochRef,
                  isPomodoro |-> isPomodoro(m.prefs),
                  writtenBy |-> m.authUser]   \* not stored: the session that wrote it
    IN IF m.storeWritable
       THEN [m EXCEPT !.store[stateKey(env)] = <<Merge(state, override)>>]
       ELSE m   \* setItem throws inside the try block

\* logCompletedFocusSession: the insert and the streak write happen when the
\* preferences have subjects and getUser() yields a user.  When supabase
\* cannot be reached (m.remoteOk is false) nothing is written: the failure
\* is caught, or comes back as an error value that is not read.
logCompletedFocusSession(m, env, actualFocusMinutes) ==
    IF ~hasSubjects(m.prefs) THEN m
    ELSE IF m.authUser = Guest THEN m
    ELSE IF ~m.remoteOk THEN [m EXCEPT !.remoteFailed = TRUE]
    ELSE [m EXCEPT !.sessions = [count |-> @.count + 1, duration |-> actualFocusMinutes,
                                 subject_id |-> env.selectedSubjectId],
                   !.streakUpdates = @ + 1]

\* handlePhaseComplete in which a failed write of the session escapes
\* logCompletedFocusSession and ends the handler before the transition
handlePhaseComplete_LogAborts(m, env) ==
    LET secondsUsed == phaseDurationSeconds(env, m.prefs)
        counted == [m EXCEPT !.completions = @ + 1]
    IN IF env.phase = "focus"
       THEN LET usedMinutes == Round(secondsUsed, SecondsPerMinute)
                logged == logCompletedFocusSession(counted, env, usedMinutes)
                shouldLongBreak ==
                    (env.completedFocusCount + 1) % sessionsUntilLongBreak(m.prefs) = 0
                nextPhase == IF shouldLongBreak THEN "longBreak" ELSE "shortBreak"
                set == [logged EXCEPT !.nx.completedFocusCount = @ + 1,
                                      !.nx.phase = nextPhase,
                                      !.nx.isRunning = FALSE,
                                      !.epochRef = Null]
            IN IF logged.remoteFailed THEN logged
               ELSE persistState(set, env,
                   [phase |-> nextPhase, isRunning |-> FALSE, phaseStartEpochMs |-> Null,
                    remainingSeconds |->
                        (IF shouldLongBreak THEN longBreakMinutes(m.prefs)
                         ELSE shortBreakMinutes(m.prefs)) * SecondsPerMinute])
       ELSE LET set == [counted EXCEPT !.nx.phase = "focus",
                                       !.nx.isRunning = FALSE,
                                       !.epochRef = Null]
            IN persistState(set, env,
                   [phase |-> "focus", isRunning |-> FALSE, phaseStartEpochMs |-> Null,
                    remainingSeconds |-> focusMinutes(m.prefs) * SecondsPerMinute])

\* handlePhaseComplete without the lines that clear phaseStartEpochMsRef
handlePhaseComplete_KeepsAnchor(m, env) ==
    LET secondsUsed == phaseDurationSeconds(env, m.prefs)
        counted == [m EXCEPT !.completions = @ + 1]
    IN IF env.phase = "focus"
       THEN LET usedMinutes == Round(secondsUsed, SecondsPerMinute)
                logged == logCompletedFocusSession(counted, env, usedMinutes)
                shouldLongBreak ==
                    (env.completedFocusCount + 1) % sessionsUntilLongBreak(m.prefs) = 0
                nextPhase == IF shouldLongBreak THEN "longBreak" ELSE "shortBreak"
                set == [logged EXCEPT !.nx.completedFocusCount = @ + 1,
                                      !.nx.phase = nextPhase,
                                      !.nx.isRunning = FALSE]
            IN persistState(set, env,
                   [phase |-> nextPhase, isRunning |-> FALSE, phaseStartEpochMs |-> Null,
                    remainingSeconds |->
                        (IF shouldLongBreak THEN longBreakMinutes(m.prefs)
                         ELSE shortBreakMinutes(m.prefs)) * SecondsPerMinute])
       ELSE LET set == [counted EXCEPT !.nx.phase = "focus",
                                       !.nx.isRunning = FALSE]
            IN persistState(set, env,
                   [phase |-> "focus", isRunning |-> FALSE, phaseStartEpochMs |-> Null,
                    remainingSeconds |-> focusMinutes(m.prefs) * SecondsPerMinute])

handlePhaseComplete(m, env) ==
    LET secondsUsed == phaseDurationSeconds(env, m.prefs)
        counted == [m EXCEPT !.completions = @ + 1]
    IN IF env.phase = "focus"
       THEN LET usedMinutes == Round(secondsUsed, SecondsPerMinute)
                logged == logCompletedFocusSession(counted, env, usedMinutes)
                shouldLongBreak ==
                    (env.completedFocusCount + 1) % sessionsUntilLongBreak(m.prefs) = 0
                nextPhase == IF shouldLongBreak THEN "longBreak" ELSE "shortBreak"
                set == [logged EXCEPT !.nx.completedFocusCount = @ + 1,
                                      !.nx.phase = nextPhase,
                                      !.nx.isRunning = FALSE,
                                      !.epochRef = Null]
            IN persistState(set, env,
                   [phase |-> nextPhase, isRunning |-> FALSE, phaseStartEpochMs |-> Null,
                    remainingSeconds |->
                        (IF shouldLongBreak THEN longBreakMinutes(m.prefs)
                         ELSE shortBreakMinutes(m.prefs)) * SecondsPerMinute])
       ELSE LET set == [counted EXCEPT !.nx.phase = "focus",
                                       !.nx.isRunning = FALSE,
                                       !.epochRef = Null]
            IN persistState(set, env,
                   [phase |-> "focus", isRunning |-> FALSE, phaseStartEpochMs |-> Null,
                    remainingSeconds |-> focusMinutes(m.prefs) * SecondsPerMinute])

\* recomputeRemaining that leaves the completion of the phase to the next tick
recomputeRemaining_LeavesToTick(m, env) ==
    IF env.isRunning /\ Truthy(m.epochRef)
    THEN LET elapsedSec == (m.now - m.epochRef) \div MsPerSecond
             newRemaining == Max(0, phaseDurationSeconds(env, m.prefs) - elapsedSec)
         IN [m EXCEPT !.nx.remainingSeconds = newRemaining]
    ELSE m

\* recomputeRemaining, from the closure of the visibility listener
recomputeRemaining(m, env) ==
    IF env.isRunning /\ Truthy(m.epochRef)
    THEN LET elapsedSec == (m.now - m.epochRef) \div MsPerSecond
             newRemaining == Max(0, phaseDurationSeconds(env, m.prefs) - elapsedSec)
             set == [m EXCEPT !.nx.remainingSeconds = newRemaining]
         IN IF newRemaining <= 0 THEN handlePhaseComplete(set, env) ELSE set
    ELSE m

\* a stored text that JSON.parse rejects
Corrupt == [corrupt |-> TRUE]
Unparseable(item) == "corrupt" \in DOMAIN item

\* a field that the stored object does not have
Undefined == "undefined"

\* the "restore persisted state" effect, deps [stateKey]
RestoreEffect(m, env) ==
    LET raw == m.store[stateKey(env)]
    IN IF raw = <<>> THEN m
       ELSE IF Unparseable(raw[1]) THEN m   \* JSON.parse throws inside the try block
       ELSE LET saved == raw[1]
                base == [m EXCEPT !.nx.phase = saved.phase,
                                  !.nx.isRunning = saved.isRunning,
                                  !.nx.customMinutes = saved.customMinutes,
                                  !.nx.selectedSubjectId =
                                      OrElseStr(saved.selectedSubjectId, defaultSubjectId(m.prefs)),
                                  !.nx.sessionTitle = OrElseStr(saved.sessionTitle, DefaultTitle),
                                  !.nx.sessionType = OrElseStr(saved.sessionType, DefaultType),
                                  !.nx.completedFocusCount = OrElse(saved.completedFocusCount, 0),
                                  !.epochRef = saved.phaseStartEpochMs]
            IN IF saved.isRunning /\ Truthy(saved.phaseStartEpochMs)
               THEN LET elapsed == (m.now - saved.phaseStartEpochMs) \div MsPerSecond
                        dur == OrElse(saved.phaseDurationSeconds,
                                      phaseDurationSeconds(env, m.prefs))
                        rem == Max(0, dur - elapsed)
                        set == [base EXCEPT !.nx.remainingSeconds = rem]
                    IN IF rem <= 0 THEN handlePhaseComplete(set, env) ELSE set
               ELSE [base EXCEPT !.nx.remainingSeconds =
                                     IF saved.remainingSeconds = Null
                                     THEN phaseDurationSeconds(env, m.prefs)
                                     ELSE saved.remainingSeconds]

\* the "reset remaining" effect, deps [phaseDurationSeconds, isRunning]
ResetRemainingEffect(m, env) ==
    IF ~env.isRunning
    THEN LET d == phaseDurationSeconds(env, m.prefs)
         IN persistState([m EXCEPT !.nx.remainingSeconds = d], env,
                         [phaseDurationSeconds |-> d, remainingSeconds |-> d])
    ELSE m

\* the "interval management" effect, deps [isRunning, phase, phaseDurationSeconds]
IntervalEffect(m, env) ==
    IF ~env.isRunning
    THEN persistState([m EXCEPT !.tick = FALSE], env, <<>>)
    ELSE LET assumedStart ==
                 m.now - (phaseDurationSeconds(env, m.prefs) - env.remainingSeconds) * MsPerSecond
             anchored ==
                 IF ~Truthy(m.epochRef)
                 THEN [m EXCEPT !.epochRef = assumedStart]
                 ELSE m
         IN [anchored EXCEPT !.tick = TRUE, !.tickEnv = env]

\* the "recompute when the tab becomes visible" effect, deps [isRunning, phaseDurationSeconds]
VisibilityEffect(m, env) == [m EXCEPT !.visEnv = env]

\* the "persist on significant state changes" effect
PersistEffect(m, env) == persistState(m, env, <<>>)

\* One render of the queued updates, followed by the effects whose deps changed
\* (cleanups first, then the effect bodies in the order they are declared).
RenderOnce(m) ==
    LET old == m.st
        env == m.nx
        durChanged == phaseDurationSeconds(old, m.prefs) # phaseDurationSeconds(env, m.prefs)
        runChanged == old.isRunning # env.isRunning
        depsRestore == stateKey(old) # stateKey(env)
        depsReset == durChanged \/ runChanged
        depsInterval == runChanged \/ old.phase # env.phase \/ durChanged
        depsVisibility == runChanged \/ durChanged
        depsPersist == \/ old.phase # env.phase
                       \/ runChanged
                       \/ old.customMinutes # env.customMinutes
                       \/ old.selectedSubjectId # env.selectedSubjectId
                       \/ old.sessionTitle # env.sessionTitle
                       \/ old.sessionType # env.sessionType
                       \/ old.completedFocusCount # env.completedFocusCount
        m0 == [m EXCEPT !.st = env, !.tick = IF depsInterval THEN FALSE ELSE @]
        m1 == IF depsRestore THEN RestoreEffect(m0, env) ELSE m0
        m2 == IF depsReset THEN ResetRemainingEffect(m1, env) ELSE m1
        m3 == IF depsInterval THEN IntervalEffect(m2, env) ELSE m2
        m4 == IF depsVisibility THEN VisibilityEffect(m3, env) ELSE m3
    IN IF depsPersist THEN PersistEffect(m4, env) ELSE m4

\* renders until no update is queued
RECURSIVE Settle(_)
Settle(m) == IF m.nx = m.st THEN m ELSE Settle(RenderOnce(m))

\* the useState initialisers of a mount under preferences p
InitialState(p) ==
    LET s0 == [phase |-> "focus", completedFocusCount |-> 0, isRunning |-> FALSE,
               customMinutes |-> DefaultCustomMinutes, remainingSeconds |-> 0, userId |-> Guest,
               selectedSubjectId |-> defaultSubjectId(p), sessionTitle |-> DefaultTitle,
               sessionType |-> DefaultType]
    IN [s0 EXCEPT !.remainingSeconds = phaseDurationSeconds(s0, p)]

\* The first render of a mounted Timer and its effects, all of which run.
MountTimer(p, u, t, storage, ok) ==
    LET env == InitialState(p)
        m0 == [prefs |-> p, authUser |-> u, now |-> t, st |-> env, nx |-> env,
               epochRef |-> Null, tick |-> FALSE,
               tickEnv |-> env, visEnv |-> env, store |-> storage,
               sessions |-> NoSessions, streakUpdates |-> 0, completions |-> 0,
               remoteOk |-> ok, remoteFailed |-> FALSE, storeWritable |-> storeWritable]
        m1 == RestoreEffect(m0, env)
        m2 == ResetRemainingEffect(m1, env)
        m3 == IntervalEffect(m2, env)
        m4 == VisibilityEffect(m3, env)
        m5 == PersistEffect(m4, env)
    IN Settle(m5)

\* the interval callback without the branch that completes the phase
TickCallback_KeepsCounting(m) ==
    LET env == m.tickEnv
        elapsedSec ==
            (m.now - (IF Truthy(m.epochRef) THEN m.epochRef ELSE m.now)) \div MsPerSecond
        newRemaining == Max(0, phaseDurationSeconds(env, m.prefs) - elapsedSec)
    IN [persistState(m, env, [remainingSeconds |-> newRemaining])
           EXCEPT !.nx.remainingSeconds = newRemaining]

\* the interval callback: the updater passed to setRemainingSeconds
TickCallback(m) ==
    LET env == m.tickEnv
        elapsedSec ==
            (m.now - (IF Truthy(m.epochRef) THEN m.epochRef ELSE m.now)) \div MsPerSecond
        newRemaining == Max(0, phaseDurationSeconds(env, m.prefs) - elapsedSec)
    IN IF newRemaining <= 0
       THEN LET cleared == [m EXCEPT !.tick = FALSE]
                done == handlePhaseComplete(cleared, env)
                saved == persistState(done, env, [remainingSeconds |-> 0])
            IN [saved EXCEPT !.nx.remainingSeconds = 0]
       ELSE [persistState(m, env, [remainingSeconds |-> newRemaining])
                EXCEPT !.nx.remainingSeconds = newRemaining]

\* onVisibility (document.visibilityState === 'visible')
onVisibility(m) == recomputeRemaining(m, m.visEnv)

handleStartPause(m) ==
    LET env == m.st
        next == ~m.nx.isRunning
        assumedStart ==
            m.now - (phaseDurationSeconds(env, m.prefs) - env.remainingSeconds) * MsPerSecond
        anchored ==
            IF next /\ ~Truthy(m.epochRef)
            THEN [m EXCEPT !.epochRef = assumedStart]
            ELSE m
    IN [persistState(anchored, env, [isRunning |-> next]) EXCEPT !.nx.isRunning = next]

\* handleReset without the line that clears phaseStartEpochMsRef
handleReset_KeepsAnchor(m) ==
    LET env == m.st
        d == phaseDurationSeconds(env, m.prefs)
        set == [m EXCEPT !.nx.isRunning = FALSE,
                         !.nx.remainingSeconds = d]
    IN persistState(set, env,
           [isRunning |-> FALSE, remainingSeconds |-> d, phaseStartEpochMs |-> Null])

\* handleReset that also starts the cycle and the session context afresh
handleReset_StartsAfresh(m) ==
    LET env == m.st
        d == phaseDurationSeconds(env, m.prefs)
        set == [m EXCEPT !.nx.isRunning = FALSE,
                         !.nx.remainingSeconds = d,
                         !.nx.phase = "focus",
                         !.nx.completedFocusCount = 0,
                         !.nx.sessionTitle = DefaultTitle,
                         !.epochRef = Null]
    IN persistState(set, env,
           [isRunning |-> FALSE, remainingSeconds |-> d, phaseStartEpochMs |-> Null])

handleReset(m) ==
    LET env == m.st
        d == phaseDurationSeconds(env, m.prefs)
        set == [m EXCEPT !.nx.isRunning = FALSE,
                         !.nx.remainingSeconds = d,
                         !.epochRef = Null]
    IN persistState(set, env,
           [isRunning |-> FALSE, remainingSeconds |-> d, phaseStartEpochMs |-> Null])

\* onChange of the custom-minutes input
setCustomMinutesInput(m, value) ==
    [m EXCEPT !.nx.customMinutes = clamp(value, 5, 180)]

----------------------------------------------------------------------------
(* The state machine *)

Machine ==
    [prefs |-> preferences, authUser |-> authUser, now |-> now, st |-> st, nx |-> nx,
     epochRef |-> epochRef, tick |-> tick,
     tickEnv |-> tickEnv, visEnv |-> visEnv, store |-> store,
     sessions |-> NoSessions, streakUpdates |-> 0, completions |-> 0,
     remoteOk |-> TRUE, remoteFailed |-> FALSE, storeWritable |-> storeWritable]

\* the cells at the start of a step in which supabase can be reached (ok) or not
MachineWhen(ok) == [Machine EXCEPT !.remoteOk = ok]

\* no text typed, no subject chosen
NoText == <<>>

\* the draft of the assignment form of Onboarding
EmptyAssignment == [title |-> NoText, subjectId |-> NoText]

\* the useState initial values of Onboarding; nothing persisted yet
OnboardingInitial ==
    [step |-> 1, subjects |-> <<>>, assignments |-> <<>>, studyMethod |-> "pomodoro",
     newSubject |-> NoText, newAssignment |-> EmptyAssignment,
     completed |-> FALSE, savedSubjects |-> <<>>, planTasks |-> <<>>]

\* the badges of initializeBadges, none earned
\* the Progress page is not open; its state holds the useState initial values
ProgressInitial ==
    [open |-> FALSE, pending |-> FALSE, sessions |-> <<>>,
     streak |-> [current |-> 0, longest |-> 0, lastStudyDate |-> NoText],
     badges |-> <<>>]

\* nothing outside the Timer component has happened yet
PagesInit ==
    /\ today = 0
    /\ rewards = <<>>
    /\ studyDays = {}
    /\ onboarding = OnboardingInitial
    /\ progress = ProgressInitial

\* the cells of m become the next state (a cleared interval holds no closure)
Becomes(m) ==
    /\ UNCHANGED pageVars
    /\ st' = m.st
    /\ nx' = m.nx
    /\ epochRef' = m.epochRef
    /\ tick' = m.tick
    /\ tickEnv' = IF m.tick THEN m.tickEnv ELSE m.st
    /\ visEnv' = m.visEnv
    /\ store' = m.store
    /\ sessions' = m.sessions
    /\ streakUpdates' = m.streakUpdates
    /\ completions' = m.completions
    /\ remoteFailed' = m.remoteFailed

\* The step of a handler that may call supabase: down is its result when
\* supabase cannot be reached, up its result when it can.  The two differ
\* only when the handler made the call.
Outcome(down, up) ==
    IF down.remoteFailed THEN Becomes(down) \/ Becomes(up) ELSE Becomes(down)

EmptyStore == [k \in Keys |-> <<>>]

\* the identities a behaviour of Spec runs under: no supabase user, or one user
SingleIdentity == {Guest} \cup {CHOOSE u \in UserIds : \A v \in UserIds : u <= v}

Init ==
    /\ now = StartEpoch
    /\ lastOp = "Mount"
    /\ remainingAtPause = Null
    /\ stepsLeft = MaxSteps
    /\ fineLeft = MaxFine
    /\ reloadsLeft = MaxReloads
    /\ userPending = TRUE
    /\ preferences \in PrefsSet
    /\ authUser \in SingleIdentity
    /\ PagesInit
    /\ storeWritable = TRUE
    /\ LET m == MountTimer(preferences, authUser, now, EmptyStore, TRUE)
       IN /\ st = m.st
          /\ nx = m.nx
          /\ epochRef = m.epochRef
          /\ tick = m.tick
          /\ tickEnv = (IF m.tick THEN m.tickEnv ELSE m.st)
          /\ visEnv = m.visEnv
          /\ store = m.store
          /\ sessions = m.sessions
          /\ streakUpdates = m.streakUpdates
          /\ completions = m.completions
          /\ remoteFailed = m.remoteFailed

\* the remaining time of a countdown of the render values s anchored at epoch, at time t
RemainingAt(s, p, epoch, t) ==
    Max(0, phaseDurationSeconds(s, p) - (t - epoch) \div MsPerSecond)

Settled == nx = st

\* nothing is pending: the user may click, the clock may step
Ready == Settled /\ ~userPending

\* the page is reloaded (or the Timer page is left and opened again)
Reload ==
    /\ reloadsLeft > 0
    /\ reloadsLeft' = reloadsLeft - 1
    /\ userPending' = TRUE
    /\ Outcome(MountTimer(preferences, authUser, now, store, FALSE),
              MountTimer(preferences, authUser, now, store, TRUE))
    /\ lastOp' = "Reload"
    /\ remainingAtPause' = Null
    /\ UNCHANGED <<now, preferences, authUser, stepsLeft, fineLeft>>

\* supabase.auth.getUser() of the mount effect resolves: setUserId
ResolveUser ==
    /\ userPending
    /\ Settled
    /\ userPending' = FALSE
    /\ Outcome(Settle([MachineWhen(FALSE) EXCEPT !.nx.userId = authUser]),
              Settle([MachineWhen(TRUE) EXCEPT !.nx.userId = authUser]))
    /\ lastOp' = "ResolveUser"
    /\ remainingAtPause' = (IF nx' = nx THEN remainingAtPause ELSE Null)
    /\ UNCHANGED <<now, preferences, authUser, stepsLeft, fineLeft, reloadsLeft>>

StartPause ==
    /\ Ready
    /\ hasSubjects(preferences)
    /\ Becomes(Settle(handleStartPause(Machine)))
    /\ lastOp' = "StartPause"
    /\ remainingAtPause' = (IF st.isRunning THEN RemainingAt(st, preferences, epochRef, now) ELSE Null)
    /\ UNCHANGED <<now, preferences, authUser, userPending, stepsLeft, fineLeft, reloadsLeft>>

Reset ==
    /\ Ready
    /\ Becomes(Settle(handleReset(Machine)))
    /\ lastOp' = "Reset"
    /\ remainingAtPause' = Null
    /\ UNCHANGED <<now, preferences, authUser, userPending, stepsLeft, fineLeft, reloadsLeft>>

SetCustomMinutes ==
    \E v \in CustomInputs :
        /\ Ready
        /\ ~isPomodoro(preferences)
        /\ Becomes(Settle(setCustomMinutesInput(Machine, v)))
        /\ lastOp' = "SetCustomMinutes"
        /\ remainingAtPause' = Null
        /\ UNCHANGED <<now, preferences, authUser, userPending, stepsLeft, fineLeft, reloadsLeft>>

\* the interval fires
Tick ==
    /\ tick
    /\ Outcome(TickCallback(MachineWhen(FALSE)),
              TickCallback(MachineWhen(TRUE)))
    /\ lastOp' = "Tick"
    /\ UNCHANGED remainingAtPause
    /\ UNCHANGED <<now, preferences, authUser, userPending, stepsLeft, fineLeft, reloadsLeft>>

\* visibilitychange or focus on window
Visibility ==
    /\ Outcome(onVisibility(MachineWhen(FALSE)),
              onVisibility(MachineWhen(TRUE)))
    /\ lastOp' = "Visibility"
    /\ UNCHANGED remainingAtPause
    /\ UNCHANGED <<now, preferences, authUser, userPending, stepsLeft, fineLeft, reloadsLeft>>

\* the scheduled render of the updates queued by Tick and Visibility
Render ==
    /\ ~Settled
    /\ Becomes(Settle(Machine))
    /\ lastOp' = "Render"
    /\ UNCHANGED remainingAtPause
    /\ UNCHANGED <<now, preferences, authUser, userPending, stepsLeft, fineLeft, reloadsLeft>>

AdvanceFine ==
    /\ Ready
    /\ fineLeft > 0
    /\ now' = now + StepFine
    /\ fineLeft' = fineLeft - 1
    /\ Becomes(Machine)
    /\ lastOp' = "Advance"
    /\ UNCHANGED remainingAtPause
    /\ UNCHANGED <<stepsLeft, reloadsLeft, preferences, authUser, userPending>>

\* the coarse clock step under preferences p
CoarseStep(p) == IF isPomodoro(p) THEN StepMinute ELSE StepCustom

AdvanceCoarse ==
    /\ Ready
    /\ stepsLeft > 0
    /\ now' = now + CoarseStep(preferences)
    /\ stepsLeft' = stepsLeft - 1
    /\ Becomes(Machine)
    /\ lastOp' = "Advance"
    /\ UNCHANGED remainingAtPause
    /\ UNCHANGED <<preferences, authUser, userPending, fineLeft, reloadsLeft>>

Next ==
    \/ Reload
    \/ ResolveUser
    \/ StartPause
    \/ Reset
    \/ SetCustomMinutes
    \/ Tick
    \/ Visibility
    \/ Render
    \/ AdvanceFine
    \/ AdvanceCoarse

Spec == Init /\ [][Next]_vars

(***************************************************************************)
(* Vocabulary of the properties.                                           *)
(***************************************************************************)

\* the snapshot stored under key k
Snapshot(k) == store[k][1]

\* this step runs the restore effect on the slot of key k: the guest slot
\* when the component mounts, the user's slot once the user is resolved
RestoreOf(k) ==
    /\ store[k] # <<>>
    /\ \/ lastOp' = "Reload" /\ k = Guest
       \/ lastOp' = "ResolveUser" /\ k = authUser /\ authUser # Guest

\* snap was saved running and its phase has run out by time t
ElapsedRunning(snap, t) ==
    /\ snap.isRunning
    /\ Truthy(snap.phaseStartEpochMs)
    /\ snap.phaseDurationSeconds - (t - snap.phaseStartEpochMs) \div MsPerSecond <= 0

\* the break that follows a focus phase when count focus phases were completed before it
NextAfterFocus(count, p) ==
    IF (count + 1) % sessionsUntilLongBreak(p) = 0 THEN "longBreak" ELSE "shortBreak"

\* the phase that follows the phase of s
Successor(s, p) ==
    IF s.phase = "focus" THEN NextAfterFocus(s.completedFocusCount, p) ELSE "focus"

\* 1 when s is in a focus phase, else 0
FocusIncrement(s) == IF s.phase = "focus" THEN 1 ELSE 0

\* the session store is written in this step: a user is signed in and has
\* subjects, and supabase is reached
CanLog == hasSubjects(preferences) /\ authUser # Guest /\ ~remoteFailed'

\* the session record the completion of a focus phase emits, for the subject
\* the Timer starts with
FocusRecord(durationSeconds) ==
    [count |-> 1, duration |-> Round(durationSeconds, SecondsPerMinute),
     subject_id |-> defaultSubjectId(preferences)]

\* a countdown is anchored and running in the committed render
Live == st.isRunning /\ Truthy(epochRef)

(***************************************************************************)
(* C1: in every state the user can observe, the phase-start anchor is set  *)
(* exactly when the timer is running; after a pause it is null.            *)
(***************************************************************************)
C1_AnchorIffRunning ==
    Settled => (st.isRunning <=> epochRef # Null)

(***************************************************************************)
(* C2: when the user resumes a paused countdown, the remaining time        *)
(* recomputed from the anchor right after the resume is the remaining time *)
(* at the moment of the pause (to the second), however long the pause was. *)
(***************************************************************************)
C2_ResumeKeepsRemaining ==
    [][ (lastOp' = "StartPause" /\ st'.isRunning /\ remainingAtPause # Null) =>
            LET r == RemainingAt(st', preferences, epochRef', now')
            IN  r - remainingAtPause \in {-1, 0, 1} ]_vars

(***************************************************************************)
(* C3: restoring a snapshot that was saved running and whose phase has run *)
(* out completes the phase exactly once and emits exactly one session      *)
(* record when the snapshot's phase was focus, none when it was a break.   *)
(***************************************************************************)
C3_RestoreCompletesOnce ==
    [][ \A k \in Keys :
          (RestoreOf(k) /\ ElapsedRunning(Snapshot(k), now)) =>
              /\ completions' = 1
              /\ CanLog => sessions'.count = FocusIncrement(Snapshot(k)) ]_vars

(***************************************************************************)
(* C4: after restoring a running snapshot whose phase has run out, the     *)
(* engine is in the successor of the snapshot's phase, the focus count is  *)
(* the snapshot's plus one only for a focus snapshot, the timer is not     *)
(* running and the remaining time is not negative.                         *)
(***************************************************************************)
C4_RestoreLandsInSuccessor ==
    [][ \A k \in Keys :
          (RestoreOf(k) /\ ElapsedRunning(Snapshot(k), now)) =>
              /\ st'.phase = Successor(Snapshot(k), preferences)
              /\ st'.completedFocusCount =
                     Snapshot(k).completedFocusCount + FocusIncrement(Snapshot(k))
              /\ ~st'.isRunning
              /\ st'.remainingSeconds >= 0 ]_vars

(***************************************************************************)
(* C5: the focus count grows by exactly one when a focus phase runs out    *)
(* and changes in no other way: no user operation, no break completion and *)
(* no restore of a snapshot changes it, except that restoring a running    *)
(* focus snapshot whose time is up counts that focus phase.                *)
(***************************************************************************)
C5_CountOnlyByFocusCompletion ==
    [][ /\ lastOp' \notin {"Reload", "ResolveUser"} =>
              \/ nx'.completedFocusCount = nx.completedFocusCount
              \/ /\ nx'.completedFocusCount = nx.completedFocusCount + 1
                 /\ completions' = 1
                 /\ nx.phase = "focus"
        /\ \A k \in Keys :
              RestoreOf(k) =>
                  st'.completedFocusCount = Snapshot(k).completedFocusCount +
                      (IF ElapsedRunning(Snapshot(k), now)
                       THEN FocusIncrement(Snapshot(k)) ELSE 0) ]_vars

(***************************************************************************)
(* C6: when a focus phase completes, by the clock or on restore, the next  *)
(* phase is the long break exactly when the number of focus phases         *)
(* completed before it, plus one, is a multiple of sessionsUntilLongBreak; *)
(* otherwise it is the short break.                                        *)
(***************************************************************************)
C6_LongBreakCadence ==
    [][ /\ (lastOp' \in {"Tick", "Visibility"} /\ completions' = 1 /\ nx.phase = "focus") =>
              nx'.phase = NextAfterFocus(nx.completedFocusCount, preferences)
        /\ \A k \in Keys :
              (RestoreOf(k) /\ ElapsedRunning(Snapshot(k), now)
                            /\ Snapshot(k).phase = "focus") =>
                  st'.phase = NextAfterFocus(Snapshot(k).completedFocusCount, preferences) ]_vars

\* the clock-driven half of C6: a focus phase that runs out under a tick or
\* a visibility recompute picks the break from the count before it
C6_TickCadence ==
    [][ (lastOp' \in {"Tick", "Visibility"} /\ completions' = 1 /\ nx.phase = "focus") =>
              nx'.phase = NextAfterFocus(nx.completedFocusCount, preferences) ]_vars

(***************************************************************************)
(* C7: at every point where the engine can be observed, the remaining time *)
(* lies between 0 and the duration of the current phase.                   *)
(***************************************************************************)
C7_RemainingWithinPhase ==
    Settled =>
        /\ 0 <= st.remainingSeconds
        /\ st.remainingSeconds <= phaseDurationSeconds(st, preferences)

(***************************************************************************)
(* C8: right after reset() the remaining time is the full duration of the  *)
(* current phase, the timer is not running and the anchor is null.         *)
(***************************************************************************)
C8_ResetRestoresPhase ==
    lastOp = "Reset" =>
        /\ Settled
        /\ st.remainingSeconds = phaseDurationSeconds(st, preferences)
        /\ ~st.isRunning
        /\ epochRef = Null

\* reset() was pressed in a break, after at least one focus phase completed
C8_Witness ==
    /\ lastOp = "Reset"
    /\ st.phase # "focus"
    /\ st.completedFocusCount > 0
    /\ st.remainingSeconds = phaseDurationSeconds(st, preferences)
    /\ epochRef = Null

(***************************************************************************)
(* C9: for a signed-in user with subjects, each focus phase that runs out  *)
(* emits exactly one session record whose duration is the phase duration   *)
(* in seconds divided by 60 and rounded, and exactly one streak update; a  *)
(* break that runs out emits neither.                                      *)
(***************************************************************************)
C9_OneRecordPerFocus ==
    [][ CanLog =>
          /\ (lastOp' \in {"Tick", "Visibility"} /\ completions' = 1) =>
                IF nx.phase = "focus"
                THEN /\ sessions' = FocusRecord(phaseDurationSeconds(nx, preferences))
                     /\ streakUpdates' = 1
                ELSE sessions'.count = 0 /\ streakUpdates' = 0
          /\ \A k \in Keys :
                (RestoreOf(k) /\ ElapsedRunning(Snapshot(k), now)) =>
                    IF Snapshot(k).phase = "focus"
                    THEN /\ sessions' = FocusRecord(Snapshot(k).phaseDurationSeconds)
                         /\ streakUpdates' = 1
                    ELSE sessions'.count = 0 /\ streakUpdates' = 0 ]_vars

\* the clock-driven half of C9
C9_TickRecord ==
    [][ (CanLog /\ lastOp' \in {"Tick", "Visibility"} /\ completions' = 1) =>
                IF nx.phase = "focus"
                THEN /\ sessions' = FocusRecord(phaseDurationSeconds(nx, preferences))
                     /\ streakUpdates' = 1
                ELSE sessions'.count = 0 /\ streakUpdates' = 0 ]_vars

UsersPrefs == EvenPrefs

InitUsers ==
    /\ Init
    /\ preferences = UsersPrefs
    /\ authUser \in UserIds

\* another user signs in: the Timer is mounted afresh
SwitchUser ==
    \E u \in UserIds \ {authUser} :
        /\ reloadsLeft > 0
        /\ reloadsLeft' = reloadsLeft - 1
        /\ authUser' = u
        /\ userPending' = TRUE
        /\ Outcome(MountTimer(preferences, u, now, store, FALSE),
                  MountTimer(preferences, u, now, store, TRUE))
        /\ lastOp' = "Reload"
        /\ remainingAtPause' = Null
        /\ UNCHANGED <<now, preferences, stepsLeft, fineLeft>>

\* the Start/Pause button pressed before getUser() has resolved
StartPauseEarly ==
    /\ Settled
    /\ userPending
    /\ hasSubjects(preferences)
    /\ Becomes(Settle(handleStartPause(Machine)))
    /\ lastOp' = "StartPause"
    /\ remainingAtPause' = Null
    /\ UNCHANGED <<now, preferences, authUser, userPending, stepsLeft, fineLeft, reloadsLeft>>

NextUsers ==
    \/ SwitchUser
    \/ ResolveUser
    \/ StartPause
    \/ StartPauseEarly
    \/ Tick
    \/ Visibility
    \/ Render
    \/ AdvanceCoarse

SpecUsers == InitUsers /\ [][NextUsers]_vars

(***************************************************************************)
(* C11: the restore effect of a user's session never reads a snapshot that *)
(* was written during the session of another user, neither under the       *)
(* user's key nor under the guest key.                                     *)
(***************************************************************************)
C11_NoCrossUserRestore ==
    [][ \A k \in Keys :
          RestoreOf(k) => Snapshot(k).writtenBy \in {Guest, authUser'} ]_vars

\* a weaker form of C11: a snapshot of another user's session that is
\* restored carries no activity of that user (it is the state of a fresh mount)
C11_NoLeakedActivity ==
    [][ \A k \in Keys :
          (RestoreOf(k) /\ Snapshot(k).writtenBy \notin {Guest, authUser'}) =>
              /\ ~Snapshot(k).isRunning
              /\ Snapshot(k).phaseStartEpochMs = Null
              /\ Snapshot(k).phase = "focus"
              /\ Snapshot(k).completedFocusCount = 0 ]_vars

(***************************************************************************)
(* C12: when supabase cannot be reached in the step that completes a       *)
(* phase, nothing is written to it, and the engine is left exactly as by   *)
(* the same step with supabase reachable: same next phase, same focus      *)
(* count, not running, same anchor, interval and stored snapshot.          *)
(***************************************************************************)
C12_FailedWriteKeepsTransition ==
    [][ remoteFailed' =>
          LET up == CASE lastOp' = "Tick" -> TickCallback(MachineWhen(TRUE))
                      [] lastOp' = "Visibility" -> onVisibility(MachineWhen(TRUE))
                      [] lastOp' = "ResolveUser" ->
                             Settle([MachineWhen(TRUE) EXCEPT !.nx.userId = authUser])
                      [] lastOp' = "Reload" ->
                             MountTimer(preferences, authUser', now, store, TRUE)
          IN  /\ up.sessions.count = 1
              /\ sessions' = NoSessions
              /\ streakUpdates' = 0
              /\ completions' = up.completions
              /\ nx' = up.nx
              /\ st' = up.st
              /\ ~nx'.isRunning
              /\ epochRef' = up.epochRef
              /\ tick' = up.tick
              /\ store' = up.store ]_vars

\* a tick found the focus phase run out while supabase could not be
\* reached: the break is queued, the focus phase is counted
C12_Witness ==
    /\ remoteFailed
    /\ lastOp = "Tick"
    /\ completions = 1
    /\ sessions = NoSessions
    /\ nx.phase \in {"shortBreak", "longBreak"}
    /\ nx.completedFocusCount = st.completedFocusCount + 1
    /\ ~nx.isRunning

(***************************************************************************)
(* The preferences provider.  SpecConfig draws the pomodoro settings from  *)
(* values inside, on and outside the bounds of each range; saving a        *)
(* setting mounts the Timer under the new preferences.                     *)
(***************************************************************************)

\* values the provider may supply for a setting
SuppliedValues == {-1, 0, 1, 61, 121, 181}

Settings == {"focusTime", "shortBreak", "longBreak", "sessionsUntilLongBreak"}

SuppliedPrefs ==
    [studyMethod : {"pomodoro"}, focusTime : SuppliedValues, shortBreak : SuppliedValues,
     longBreak : SuppliedValues, sessionsUntilLongBreak : SuppliedValues,
     subjects : {<<"s1">>}]

\* the state of a Timer just mounted under preferences p, with nothing stored
Mounted(p) ==
    /\ now = StartEpoch
    /\ lastOp = "Mount"
    /\ remainingAtPause = Null
    /\ stepsLeft = MaxSteps
    /\ fineLeft = MaxFine
    /\ reloadsLeft = MaxReloads
    /\ userPending = TRUE
    /\ preferences = p
    /\ authUser = Guest
    /\ PagesInit
    /\ storeWritable = TRUE
    /\ LET m == MountTimer(p, Guest, StartEpoch, EmptyStore, TRUE)
       IN /\ st = m.st
          /\ nx = m.nx
          /\ epochRef = m.epochRef
          /\ tick = m.tick
          /\ tickEnv = m.st
          /\ visEnv = m.visEnv
          /\ store = m.store
          /\ sessions = m.sessions
          /\ streakUpdates = m.streakUpdates
          /\ completions = m.completions
          /\ remoteFailed = m.remoteFailed

InitConfig == \E p \in SuppliedPrefs : Mounted(p)

\* the provider supplies another value for one setting; the Timer is mounted
\* under the new preferences
SaveSetting ==
    \E f \in Settings, v \in SuppliedValues :
        LET p == [preferences EXCEPT ![f] = v]
        IN /\ preferences' = p
           /\ Becomes(MountTimer(p, authUser, now, store, TRUE))
           /\ lastOp' = "Reload"
           /\ UNCHANGED <<now, authUser, userPending, remainingAtPause,
                          stepsLeft, fineLeft, reloadsLeft>>

NextConfig == SaveSetting

SpecConfig == InitConfig /\ [][NextConfig]_vars

\* the nearest value to supplied in 1..upper
NearestBound(supplied, upper) == Min(upper, Max(1, supplied))

(***************************************************************************)
(* C13: whatever integers the provider supplies, 0 and negative values     *)
(* included, the effective focus, short-break and long-break minutes and   *)
(* sessionsUntilLongBreak are the supplied values clamped to 1..180,       *)
(* 1..60, 1..120 and 1..12, and are positive.                              *)
(***************************************************************************)
C13_ClampedToNearestBound ==
    /\ focusMinutes(preferences) = NearestBound(preferences.focusTime, 180)
    /\ shortBreakMinutes(preferences) = NearestBound(preferences.shortBreak, 60)
    /\ longBreakMinutes(preferences) = NearestBound(preferences.longBreak, 120)
    /\ sessionsUntilLongBreak(preferences) =
           NearestBound(preferences.sessionsUntilLongBreak, 12)
    /\ focusMinutes(preferences) > 0
    /\ shortBreakMinutes(preferences) > 0
    /\ longBreakMinutes(preferences) > 0
    /\ sessionsUntilLongBreak(preferences) > 0
    /\ st.remainingSeconds = NearestBound(preferences.focusTime, 180) * SecondsPerMinute

\* what the code computes instead: a supplied 0 is replaced by the default
\* of the setting (25, 5, 15, 4); every other value is clamped
C13_ZeroBecomesDefault ==
    /\ focusMinutes(preferences) =
           NearestBound(IF preferences.focusTime = 0 THEN DefaultFocus
                        ELSE preferences.focusTime, 180)
    /\ shortBreakMinutes(preferences) =
           NearestBound(IF preferences.shortBreak = 0 THEN DefaultShortBreak
                        ELSE preferences.shortBreak, 60)
    /\ longBreakMinutes(preferences) =
           NearestBound(IF preferences.longBreak = 0 THEN DefaultLongBreak
                        ELSE preferences.longBreak, 120)
    /\ sessionsUntilLongBreak(preferences) =
           NearestBound(IF preferences.sessionsUntilLongBreak = 0 THEN DefaultSessions
                        ELSE preferences.sessionsUntilLongBreak, 12)
    /\ st.remainingSeconds = focusMinutes(preferences) * SecondsPerMinute
    /\ st.remainingSeconds > 0

(***************************************************************************)
(* C14: when the user pauses a running countdown, the remaining time shown *)
(* right after the pause is the value shown before it (the one the last    *)
(* tick computed), and no step changes it while the engine stays paused.   *)
(***************************************************************************)
C14_PauseFreezesRemaining ==
    [][ /\ (lastOp' = "StartPause" /\ st.isRunning /\ ~st'.isRunning) =>
              st'.remainingSeconds = st.remainingSeconds
        /\ (remainingAtPause # Null /\ remainingAtPause' # Null) =>
              st'.remainingSeconds = st.remainingSeconds ]_vars

\* the second half of C14 alone: while the engine stays paused the remaining
\* time shown does not change
C14_PausedStaysPut ==
    [][ (remainingAtPause # Null /\ remainingAtPause' # Null) =>
              st'.remainingSeconds = st.remainingSeconds ]_vars

(***************************************************************************)
(* C15: once a phase transition has settled, whether a tick, a visibility  *)
(* recompute or the restore of an elapsed snapshot made it, the engine is  *)
(* not running and the remaining time is the full duration of the new      *)
(* phase; and a phase starts running only by the user's Start or by the    *)
(* restore of a snapshot that was saved running.                           *)
(***************************************************************************)
C15_TransitionEndsIdleAndFull ==
    [][ /\ (lastOp' = "Render" /\ nx.phase # st.phase) =>
              /\ ~st'.isRunning
              /\ st'.remainingSeconds = phaseDurationSeconds(st', preferences)
        /\ \A k \in Keys :
              (RestoreOf(k) /\ ElapsedRunning(Snapshot(k), now)) =>
                  /\ ~st'.isRunning
                  /\ st'.remainingSeconds = phaseDurationSeconds(st', preferences)
        /\ (~st.isRunning /\ st'.isRunning) =>
              \/ lastOp' = "StartPause"
              \/ \E k \in Keys : RestoreOf(k) /\ Snapshot(k).isRunning
        /\ (completions' > 0 /\ lastOp' \in {"Tick", "Visibility"}) => st.isRunning ]_vars

\* C15 for the transitions made by a tick or a visibility recompute only
C15_ClockTransition ==
    [][ /\ (lastOp' = "Render" /\ nx.phase # st.phase) =>
              /\ ~st'.isRunning
              /\ st'.remainingSeconds = phaseDurationSeconds(st', preferences)
        /\ (~st.isRunning /\ st'.isRunning) =>
              \/ lastOp' = "StartPause"
              \/ \E k \in Keys : RestoreOf(k) /\ Snapshot(k).isRunning
        /\ (completions' > 0 /\ lastOp' \in {"Tick", "Visibility"}) => st.isRunning ]_vars

(***************************************************************************)
(* C16: a break that runs out always leads to the focus phase, whether a   *)
(* tick, a visibility recompute or the restore of an elapsed break         *)
(* snapshot completes it.                                                  *)
(***************************************************************************)
C16_BreakLeadsToFocus ==
    [][ /\ (lastOp' \in {"Tick", "Visibility"} /\ completions' = 1 /\ nx.phase # "focus") =>
              nx'.phase = "focus"
        /\ \A k \in Keys :
              (RestoreOf(k) /\ ElapsedRunning(Snapshot(k), now)
                            /\ Snapshot(k).phase # "focus") =>
                  st'.phase = "focus" ]_vars

\* C16 for the breaks a tick or a visibility recompute completes
C16_ClockBreakLeadsToFocus ==
    [][ (lastOp' \in {"Tick", "Visibility"} /\ completions' = 1 /\ nx.phase # "focus") =>
              nx'.phase = "focus" ]_vars

\* snap was saved running with an anchor, and its phase has not run out by time t
InFlight(snap, t) ==
    /\ snap.isRunning
    /\ Truthy(snap.phaseStartEpochMs)
    /\ snap.phaseDurationSeconds - (t - snap.phaseStartEpochMs) \div MsPerSecond > 0

(***************************************************************************)
(* C17: restoring a snapshot that was saved running and whose phase has    *)
(* not run out yields an engine that runs in the snapshot's phase, with    *)
(* the snapshot's anchor and focus count, completes nothing, and shows the *)
(* remaining time a countdown that was never interrupted shows at that     *)
(* moment: the phase duration less the time since the anchor.              *)
(***************************************************************************)
C17_ReloadResumesInFlight ==
    [][ \A k \in Keys :
          (RestoreOf(k) /\ InFlight(Snapshot(k), now)) =>
              /\ st'.isRunning
              /\ st'.phase = Snapshot(k).phase
              /\ st'.completedFocusCount = Snapshot(k).completedFocusCount
              /\ epochRef' = Snapshot(k).phaseStartEpochMs
              /\ completions' = 0
              /\ tick'
              /\ phaseDurationSeconds(st', preferences) = Snapshot(k).phaseDurationSeconds
              /\ st'.remainingSeconds =
                     Snapshot(k).phaseDurationSeconds -
                         (now - Snapshot(k).phaseStartEpochMs) \div MsPerSecond ]_vars

\* C17 without the remaining time shown right after the restore
C17_ResumesPhaseAndAnchor ==
    [][ \A k \in Keys :
          (RestoreOf(k) /\ InFlight(Snapshot(k), now)) =>
              /\ st'.isRunning
              /\ st'.phase = Snapshot(k).phase
              /\ st'.completedFocusCount = Snapshot(k).completedFocusCount
              /\ epochRef' = Snapshot(k).phaseStartEpochMs
              /\ completions' = 0
              /\ tick'
              /\ phaseDurationSeconds(st', preferences) = Snapshot(k).phaseDurationSeconds ]_vars

(***************************************************************************)
(* C18: restoring a snapshot that was saved not running restores the       *)
(* remaining time verbatim: once the restore has settled the engine shows  *)
(* the remainingSeconds of the snapshot, in every phase and mode.  (Only   *)
(* snapshots whose remaining time lies within their own phase duration are *)
(* considered.)                                                            *)
(***************************************************************************)
C18_IdleRestoreVerbatim ==
    [][ \A k \in Keys :
          (/\ RestoreOf(k)
           /\ ~Snapshot(k).isRunning
           /\ Snapshot(k).remainingSeconds <= Snapshot(k).phaseDurationSeconds) =>
              /\ st'.remainingSeconds = Snapshot(k).remainingSeconds
              /\ ~st'.isRunning
              /\ st'.phase = Snapshot(k).phase ]_vars

----------------------------------------------------------------------------
\* the operations of the user that change the engine's state
UserMutations == {"StartPause", "Reset", "SetCustomMinutes"}

\* the recomputations of a running countdown
ClockMutations == {"Tick", "Visibility"}

\* the step ends a mutation with nothing left to render
MutationSettles ==
    /\ nx' = st'
    /\ \/ lastOp' \in UserMutations
       \/ lastOp' \in ClockMutations /\ st.isRunning
       \/ lastOp' = "Render" /\ lastOp \in ClockMutations

\* the snapshot stored under the current state key
Current == store[stateKey(st)][1]

SnapshotShape ==
    /\ store[stateKey(st)] # <<>>
    /\ Current.phase = st.phase
    /\ Current.isRunning = st.isRunning
    /\ Current.completedFocusCount = st.completedFocusCount
    /\ Current.phaseDurationSeconds = phaseDurationSeconds(st, preferences)

SnapshotClock ==
    /\ store[stateKey(st)] # <<>>
    /\ Current.remainingSeconds = st.remainingSeconds
    /\ Current.phaseStartEpochMs = epochRef

(***************************************************************************)
(* C19: after every mutation (start, pause, reset, tick, phase transition, *)
(* configuration change) has settled, the snapshot stored under the        *)
(* current state key has phase, isRunning, completedFocusCount,            *)
(* remainingSeconds, phaseDurationSeconds and phaseStartEpochMs equal to   *)
(* the engine's in-memory values.                                          *)
(***************************************************************************)
C19_SnapshotMirrorsEngine ==
    [][ MutationSettles => (SnapshotShape' /\ SnapshotClock') ]_vars

\* What holds of the code: phase, isRunning, completedFocusCount and
\* phaseDurationSeconds of the stored snapshot are those of the engine.
C19_SnapshotShapeCurrent ==
    [][ MutationSettles => SnapshotShape' ]_vars

----------------------------------------------------------------------------
\* the custom minutes input is edited while the countdown runs
EditWhileRunning == lastOp' = "SetCustomMinutes" /\ st.isRunning

(***************************************************************************)
(* C20: while a phase is running, a configuration change (here an edit of  *)
(* customMinutes, the one configuration change a mounted engine can see)   *)
(* does not change phaseDurationSeconds or the remaining time of the       *)
(* countdown in flight: the remaining time computed from the anchor is the *)
(* same before and after the edit.                                         *)
(***************************************************************************)
C20_ConfigDeferredWhileRunning ==
    [][ EditWhileRunning =>
          /\ phaseDurationSeconds(st', preferences) = phaseDurationSeconds(st, preferences)
          /\ st'.remainingSeconds = st.remainingSeconds
          /\ RemainingAt(st', preferences, epochRef', now') =
                 RemainingAt(st, preferences, epochRef, now) ]_vars

\* What holds of the code: the edit leaves the phase, the running flag, the
\* anchor and the displayed remaining time as they were.
C20_EditKeepsAnchor ==
    [][ EditWhileRunning =>
          /\ st'.phase = st.phase
          /\ st'.isRunning
          /\ epochRef' = epochRef
          /\ st'.remainingSeconds = st.remainingSeconds ]_vars

----------------------------------------------------------------------------
(***************************************************************************)
(* The session context.  SpecSession lets a signed-in user choose the      *)
(* subject, the title and the type of the session, and change the subject  *)
(* list in Settings, after which the Timer page is mounted again under the *)
(* new preferences.                                                        *)
(***************************************************************************)

\* the subject lists the preferences may carry
SubjectLists == {<<"s1", "s2">>, <<"s1">>}

SessionPrefs == [EvenPrefs EXCEPT !.subjects = <<"s1", "s2">>]

\* what the user types into the title input / picks in the type select
Titles == {"Essay"}
Types == {"review"}

\* the user the behaviours of SpecSession run under
SessionUser == CHOOSE u \in UserIds : \A v \in UserIds : u <= v

InitSession ==
    /\ now = StartEpoch
    /\ lastOp = "Mount"
    /\ remainingAtPause = Null
    /\ stepsLeft = MaxSteps
    /\ fineLeft = MaxFine
    /\ reloadsLeft = MaxReloads
    /\ userPending = TRUE
    /\ preferences = SessionPrefs
    /\ authUser = SessionUser
    /\ PagesInit
    /\ storeWritable = TRUE
    /\ LET m == MountTimer(SessionPrefs, SessionUser, StartEpoch, EmptyStore, TRUE)
       IN /\ st = m.st
          /\ nx = m.nx
          /\ epochRef = m.epochRef
          /\ tick = m.tick
          /\ tickEnv = m.st
          /\ visEnv = m.visEnv
          /\ store = m.store
          /\ sessions = m.sessions
          /\ streakUpdates = m.streakUpdates
          /\ completions = m.completions
          /\ remoteFailed = m.remoteFailed

\* onChange of the subject select: one of the options, the subjects of the preferences
SelectSubject ==
    \E i \in 1..Len(preferences.subjects) :
        /\ Ready
        /\ Becomes(Settle([Machine EXCEPT !.nx.selectedSubjectId = preferences.subjects[i]]))
        /\ lastOp' = "SelectSubject"
        /\ UNCHANGED <<now, preferences, authUser, userPending, remainingAtPause,
                       stepsLeft, fineLeft, reloadsLeft>>

\* onChange of the title input
SetTitle ==
    \E t \in Titles :
        /\ Ready
        /\ Becomes(Settle([Machine EXCEPT !.nx.sessionTitle = t]))
        /\ lastOp' = "SetTitle"
        /\ UNCHANGED <<now, preferences, authUser, userPending, remainingAtPause,
                       stepsLeft, fineLeft, reloadsLeft>>

\* onChange of the type select
SetType ==
    \E t \in Types :
        /\ Ready
        /\ Becomes(Settle([Machine EXCEPT !.nx.sessionType = t]))
        /\ lastOp' = "SetType"
        /\ UNCHANGED <<now, preferences, authUser, userPending, remainingAtPause,
                       stepsLeft, fineLeft, reloadsLeft>>

\* the subject list is changed in Settings and the Timer page is opened again
EditSubjects ==
    \E l \in SubjectLists \ {preferences.subjects} :
        LET p == [preferences EXCEPT !.subjects = l]
        IN /\ reloadsLeft > 0
           /\ reloadsLeft' = reloadsLeft - 1
           /\ preferences' = p
           /\ userPending' = TRUE
           /\ Outcome(MountTimer(p, authUser, now, store, FALSE),
                      MountTimer(p, authUser, now, store, TRUE))
           /\ lastOp' = "Reload"
           /\ remainingAtPause' = Null
           /\ UNCHANGED <<now, authUser, stepsLeft, fineLeft>>

NextSession ==
    \/ SelectSubject
    \/ SetTitle
    \/ SetType
    \/ EditSubjects
    \/ ResolveUser
    \/ StartPause
    \/ Reset
    \/ Tick
    \/ Visibility
    \/ Render
    \/ AdvanceCoarse

SpecSession == InitSession /\ [][NextSession]_vars

\* the session context of the render values s
SessionContext(s) == <<s.selectedSubjectId, s.sessionTitle, s.sessionType>>

(***************************************************************************)
(* C21: reset() changes neither phase nor completedFocusCount nor the      *)
(* session context (subject, title, type), in every reachable state.       *)
(***************************************************************************)
C21_ResetKeepsCycleAndContext ==
    [][ lastOp' = "Reset" =>
          /\ st'.phase = st.phase
          /\ st'.completedFocusCount = st.completedFocusCount
          /\ SessionContext(st') = SessionContext(st) ]_vars

\* a reset in a break, after a completed focus phase, of a session whose
\* subject, title and type the user has chosen
C21_Witness ==
    /\ lastOp = "Reset"
    /\ st.phase # "focus"
    /\ st.completedFocusCount > 0
    /\ SessionContext(st) = <<"s2", "Essay", "review">>

----------------------------------------------------------------------------
\* the tab becomes visible while the committed render runs an anchored
\* countdown whose duration has elapsed
ResumedElapsed ==
    /\ lastOp' = "Visibility"
    /\ Live
    /\ RemainingAt(st, preferences, epochRef, now) = 0

----------------------------------------------------------------------------
(***************************************************************************)
(* The streak.  Every logged focus completion updates the user's row of    *)
(* the rewards table.  SpecStreak lets a signed-in user complete focus     *)
(* phases on some days and none on others.                                 *)
(***************************************************************************)

\* the variables of the Timer component
timerVars == <<now, preferences, authUser, userPending, st, nx, epochRef, tick, tickEnv,
               visEnv, store, sessions, streakUpdates, completions, remoteFailed, lastOp,
               remainingAtPause, stepsLeft, fineLeft, reloadsLeft>>

\* "Update streaks table" of logCompletedFocusSession: the row after a focus
\* phase is logged on day
updateStreak(row, day) ==
    IF row # <<>>
    THEN LET streakRows == row[1]
             lastDate == streakRows.last_study_date
             yIso == day - 1
             newCurrent == IF lastDate = yIso THEN streakRows.current + 1 ELSE 1
             newLongest == Max(streakRows.longest, newCurrent)
         IN <<[current |-> newCurrent, longest |-> newLongest, last_study_date |-> day]>>
    ELSE <<[current |-> 1, longest |-> 1, last_study_date |-> day]>>

InitStreak == InitSession

\* midnight passes
NextDay ==
    /\ today < MaxDays
    /\ today' = today + 1
    /\ UNCHANGED <<rewards, studyDays, storeWritable, onboarding, progress>>
    /\ UNCHANGED timerVars

\* a focus phase completes and is logged
CompleteFocus ==
    /\ rewards' = updateStreak(rewards, today)
    /\ studyDays' = studyDays \cup {today}
    /\ UNCHANGED <<today, storeWritable, onboarding, progress>>
    /\ UNCHANGED timerVars

NextStreak == NextDay \/ CompleteFocus

SpecStreak == InitStreak /\ [][NextStreak]_vars

\* the number of consecutive days of days that end with day d
RECURSIVE DayRun(_, _)
DayRun(days, d) == IF d \in days THEN 1 + DayRun(days, d - 1) ELSE 0

\* the day of the latest completion
LatestDay(days) == CHOOSE d \in days : \A e \in days : e <= d

\* the stored current streak is the run of study days that ends with the latest one
StreakIsRun(row, days) == row[1].current = DayRun(days, LatestDay(days))

(***************************************************************************)
(* C23: after any sequence of focus completions on arbitrary days, the     *)
(* stored current streak equals the number of consecutive days, ending     *)
(* with the day of the latest completion, on each of which a focus phase   *)
(* was completed (so a second completion on a day does not lower it).      *)
(***************************************************************************)
C23_StreakCountsConsecutiveDays ==
    rewards # <<>> => StreakIsRun(rewards, studyDays)

\* What holds of the code: the first completion of a day keeps a correct
\* streak correct.
C23_FirstOfDayCounts ==
    [][ (/\ today \notin studyDays
         /\ studyDays' # studyDays
         /\ rewards # <<>> => StreakIsRun(rewards, studyDays)) =>
            StreakIsRun(rewards', studyDays') ]_vars

----------------------------------------------------------------------------
(***************************************************************************)
(* A store that cannot be written (quota exceeded, storage disabled):      *)
(* every localStorage.setItem throws.  SpecQuota runs the engine from the  *)
(* mount on under such a store.                                            *)
(***************************************************************************)

InitQuota ==
    /\ now = StartEpoch
    /\ lastOp = "Mount"
    /\ remainingAtPause = Null
    /\ stepsLeft = MaxSteps
    /\ fineLeft = MaxFine
    /\ reloadsLeft = MaxReloads
    /\ userPending = TRUE
    /\ preferences \in PrefsSet
    /\ authUser \in SingleIdentity
    /\ PagesInit
    /\ storeWritable = FALSE
    /\ LET m == MountTimer(preferences, authUser, now, EmptyStore, TRUE)
       IN /\ st = m.st
          /\ nx = m.nx
          /\ epochRef = m.epochRef
          /\ tick = m.tick
          /\ tickEnv = (IF m.tick THEN m.tickEnv ELSE m.st)
          /\ visEnv = m.visEnv
          /\ store = m.store
          /\ sessions = m.sessions
          /\ streakUpdates = m.streakUpdates
          /\ completions = m.completions
          /\ remoteFailed = m.remoteFailed

SpecQuota == InitQuota /\ [][Next]_vars

\* the in-memory state after the step is that of machine m
SameEngine(m) ==
    /\ st' = m.st
    /\ nx' = m.nx
    /\ epochRef' = m.epochRef
    /\ tick' = m.tick

(***************************************************************************)
(* C24: a failure of the snapshot write never blocks a user action: when   *)
(* every write to the store fails, start, pause and reset still change the *)
(* in-memory engine state exactly as they do when the writes succeed.      *)
(***************************************************************************)
C24_FailedWriteBlocksNothing ==
    [][ /\ lastOp' = "StartPause" =>
              /\ SameEngine(Settle(handleStartPause([Machine EXCEPT !.storeWritable = TRUE])))
              /\ st'.isRunning # st.isRunning
        /\ lastOp' = "Reset" =>
              /\ SameEngine(Settle(handleReset([Machine EXCEPT !.storeWritable = TRUE])))
              /\ ~st'.isRunning
              /\ st'.remainingSeconds = phaseDurationSeconds(st, preferences)
        /\ store' = EmptyStore ]_vars

\* under a store whose writes fail the user paused a countdown that had run
\* for a while, and nothing was stored
C24_Witness ==
    /\ ~storeWritable
    /\ lastOp = "StartPause"
    /\ ~st.isRunning
    /\ remainingAtPause # Null
    /\ remainingAtPause < phaseDurationSeconds(st, preferences)
    /\ store = EmptyStore

\* under a store whose writes fail the user reset a running countdown
C24_ResetWitness ==
    /\ ~storeWritable
    /\ lastOp = "Reset"
    /\ epochRef = Null
    /\ now > StartEpoch

----------------------------------------------------------------------------
(***************************************************************************)
(* Damaged storage.  localStorage is shared with everything that runs on   *)
(* the origin and outlives versions of the application.  SpecStorage lets  *)
(* a slot be removed, replaced by text that does not parse, or replaced by *)
(* an object that lacks fields, before the page is loaded again.           *)
(***************************************************************************)

\* a stored object that has isRunning and customMinutes and no other field
PartialSnapshot ==
    [phase |-> Undefined, isRunning |-> FALSE, customMinutes |-> DefaultCustomMinutes,
     selectedSubjectId |-> "", sessionTitle |-> "", sessionType |-> "",
     completedFocusCount |-> 0, phaseDurationSeconds |-> 0, remainingSeconds |-> Null,
     phaseStartEpochMs |-> Null, isPomodoro |-> TRUE, writtenBy |-> Guest]

\* what a damaged slot holds
Damaged == {<<>>, <<Corrupt>>, <<PartialSnapshot>>}

InitStorage == Init /\ preferences \in {PomodoroPrefs, CustomPrefs}

\* a slot that the next restore reads is damaged
Damage ==
    \E k \in {Guest, authUser}, d \in Damaged :
        /\ Settled
        /\ reloadsLeft > 0 \/ (userPending /\ k # Guest)
        /\ store[k] # d
        /\ store' = [store EXCEPT ![k] = d]
        /\ lastOp' = "Damage"
        /\ UNCHANGED <<now, preferences, authUser, userPending, st, nx, epochRef, tick,
                       tickEnv, visEnv, sessions, streakUpdates, completions, remoteFailed,
                       remainingAtPause, stepsLeft, fineLeft, reloadsLeft>>
        /\ UNCHANGED pageVars

NextStorage ==
    \/ Damage
    \/ Reload
    \/ ResolveUser
    \/ StartPause
    \/ Reset
    \/ SetCustomMinutes
    \/ Tick
    \/ Render
    \/ AdvanceCoarse

SpecStorage == InitStorage /\ [][NextStorage]_vars

\* the slot holds no snapshot that can be read and parsed
Unusable(slot) == slot = <<>> \/ Unparseable(slot[1])

\* the engine of a Timer that has just been mounted with nothing to restore
FreshEngine(s, epoch) ==
    /\ s.phase = "focus"
    /\ ~s.isRunning
    /\ s.completedFocusCount = 0
    /\ s.remainingSeconds = InitialState(preferences).remainingSeconds
    /\ epoch = Null

\* the page is loaded and finds no usable snapshot: under the guest key at
\* the mount, and under the user's key when the user is resolved
StartsFresh ==
    /\ (lastOp' = "Reload" /\ Unusable(store[Guest])) => FreshEngine(st', epochRef')
    /\ (/\ lastOp' = "ResolveUser"
        /\ authUser # Guest
        /\ Unusable(store[authUser])
        /\ FreshEngine(st, epochRef)) => FreshEngine(st', epochRef')

(***************************************************************************)
(* C25: when the snapshot is absent or cannot be read or parsed the engine *)
(* starts in the fresh initial state (focus, not running, count 0, anchor  *)
(* null, remainingSeconds the full focus duration); and a snapshot that is *)
(* unreadable or incomplete never leaves the engine with a phase outside   *)
(* {focus, shortBreak, longBreak}.                                         *)
(***************************************************************************)
C25_UnusableSnapshotStartsFresh ==
    [][ /\ StartsFresh
        /\ st'.phase \in Phases ]_vars

\* What holds of the code: an absent or unparseable snapshot leaves the
\* freshly mounted engine in its initial state.
C25_AbsentOrCorruptStartsFresh ==
    [][ StartsFresh ]_vars

----------------------------------------------------------------------------
(***************************************************************************)
(* Progress.  SpecLive runs one mounted engine (the host does not discard  *)
(* it) up to a horizon of LiveSteps clock steps.  A phase is started only  *)
(* when it ends before the horizon.  The interval fires while it is armed, *)
(* React renders the updates that are queued, getUser() resolves and time  *)
(* passes: these steps are weakly fair.  The user's clicks are not.        *)
(***************************************************************************)

Horizon == StartEpoch + LiveSteps * CoarseStep(preferences)

\* the Start button, pressed while the phase can still end before the horizon
StartInTime ==
    /\ ~st.isRunning
    /\ now + phaseDurationSeconds(st, preferences) * MsPerSecond <= Horizon
    /\ StartPause

\* the Pause button
Pause ==
    /\ st.isRunning
    /\ StartPause

\* time passes
AdvanceLive ==
    /\ Ready
    /\ now < Horizon
    /\ now' = now + CoarseStep(preferences)
    /\ Becomes(Machine)
    /\ lastOp' = "Advance"
    /\ UNCHANGED <<preferences, authUser, userPending, remainingAtPause,
                   stepsLeft, fineLeft, reloadsLeft>>

NextLive ==
    \/ ResolveUser
    \/ StartInTime
    \/ Pause
    \/ Reset
    \/ Tick
    \/ Visibility
    \/ Render
    \/ AdvanceLive

\* The interval is armed and a tick has not just been handled: a Tick step is
\* possible (it records itself in lastOp).
TickDue == tick /\ lastOp # "Tick"

\* Updates are queued: a Render step is possible.
RenderDue == ~Settled /\ lastOp # "Render"

\* WF_vars(Tick) and WF_vars(Render), with the enabling condition of the step
\* written out as a state predicate that implies ENABLED <<Tick>>_vars
\* (<<Render>>_vars): the fairness assumed is no stronger than weak fairness.
Fairness ==
    /\ WF_vars(ResolveUser)
    /\ WF_vars(AdvanceLive)
    /\ []<>(~TickDue) \/ []<><<Tick>>_vars
    /\ []<>(~RenderDue) \/ []<><<Render>>_vars

SpecLive == Init /\ [][NextLive]_vars /\ Fairness

\* the user has just paused or reset the countdown
Interrupted == lastOp \in {"StartPause", "Reset"} /\ ~st.isRunning

----------------------------------------------------------------------------
\* a stored snapshot that says running and has no anchor
RunningUnanchored(slot) ==
    /\ slot # <<>>
    /\ slot[1].isRunning
    /\ ~Truthy(slot[1].phaseStartEpochMs)

(***************************************************************************)
(* C27: no snapshot in the store, the writes made while a phase completion *)
(* is in progress included, has isRunning = true together with a null      *)
(* phaseStartEpochMs, so that a reload can never restore a running state   *)
(* without an anchor.                                                      *)
(***************************************************************************)
C27_NoRunningSnapshotWithoutAnchor ==
    \A k \in Keys : ~RunningUnanchored(store[k])

\* What holds of the code: once the render that follows has run its effects,
\* the snapshot under the current key is not running without an anchor.
C27_SettledSnapshotAnchored ==
    Settled => ~RunningUnanchored(store[stateKey(st)])

----------------------------------------------------------------------------
\* the ids of the subjects of preferences p
SubjectIds(p) == {p.subjects[i] : i \in 1..Len(p.subjects)}

(***************************************************************************)
(* C28: every completed-session record the timer inserts carries a subject *)
(* id of the subject list of the current preferences, also when the        *)
(* session context was restored from a snapshot written under an earlier   *)
(* subject list.                                                           *)
(***************************************************************************)
C28_RecordSubjectInList ==
    sessions.count > 0 => sessions.subject_id \in SubjectIds(preferences)

\* What holds of the code: while the subject list is the one the Timer was
\* first mounted with, the record carries one of its subjects.
C28_RecordSubjectKnown ==
    sessions.count > 0 => sessions.subject_id \in SubjectIds(SessionPrefs)

----------------------------------------------------------------------------
(***************************************************************************)
(* Onboarding (components/Onboarding, in Calendar.tsx).  The four-step     *)
(* form keeps its subjects, its assignments and the two drafts in          *)
(* component state; completeOnboarding persists what the render it was     *)
(* clicked in holds.  No handler of the form is asynchronous before the    *)
(* last one, so each click sees the state the click before it left.        *)
(***************************************************************************)

MaxSubjects == 2        \* the subject list of the form grows to at most this length
MaxAssignments == 2     \* the assignment list of the form grows to at most this length

\* texts the user types, as sequences of characters
SubjectTexts == {<<" ">>, <<"M", " ">>}
TitleTexts == {<<" ">>, <<"T">>}

\* String.prototype.trim
RECURSIVE TrimStart(_)
TrimStart(s) == IF s # <<>> /\ Head(s) = " " THEN TrimStart(Tail(s)) ELSE s

RECURSIVE TrimEnd(_)
TrimEnd(s) == IF s # <<>> /\ s[Len(s)] = " " THEN TrimEnd(SubSeq(s, 1, Len(s) - 1)) ELSE s

Trim(s) == TrimEnd(TrimStart(s))

\* `temp-${Date.now()}`
TempId(t) == <<"temp", t>>

\* the id supabase gives the i-th inserted row
RealId(i) == <<"uuid", i>>

\* the ids of a subject list
IdsOf(subjects) == {subjects[i].id : i \in 1..Len(subjects)}

\* Array.prototype.filter over the subject list
RECURSIVE WithoutSubject(_, _)
WithoutSubject(subjects, id) ==
    IF subjects = <<>> THEN <<>>
    ELSE IF Head(subjects).id # id
         THEN <<Head(subjects)>> \o WithoutSubject(Tail(subjects), id)
         ELSE WithoutSubject(Tail(subjects), id)

addSubject(o, t) ==
    IF Trim(o.newSubject) # NoText
    THEN LET subject == [id |-> TempId(t), name |-> Trim(o.newSubject),
                         color |-> Len(o.subjects) % 10,
                         priority |-> Len(o.subjects) + 1]
         IN [o EXCEPT !.subjects = Append(o.subjects, subject), !.newSubject = NoText]
    ELSE o

removeSubject(o, id) == [o EXCEPT !.subjects = WithoutSubject(o.subjects, id)]

addAssignment(o, t) ==
    IF Trim(o.newAssignment.title) # NoText /\ o.newAssignment.subjectId # NoText
    THEN LET assignment == [id |-> t, title |-> Trim(o.newAssignment.title),
                            subjectId |-> o.newAssignment.subjectId, completed |-> FALSE]
         IN [o EXCEPT !.assignments = Append(o.assignments, assignment),
                      !.newAssignment = EmptyAssignment]
    ELSE o

\* idMap.get(id) || id, where idMap was filled in the order of the subject list
MappedId(subjects, mapped, id) ==
    IF mapped /\ id \in IdsOf(subjects)
    THEN RealId(CHOOSE i \in 1..Len(subjects) :
                    /\ subjects[i].id = id
                    /\ \A j \in 1..Len(subjects) : subjects[j].id = id => j <= i)
    ELSE id

\* completeOnboarding for the user userId (Guest: none); inserted: the insert
\* into subjects returned one row per subject
completeOnboarding(o, userId, inserted) ==
    LET mapped == userId # Guest /\ Len(o.subjects) > 0 /\ inserted
        rows == [i \in 1..Len(o.assignments) |->
                    [subject_id |-> MappedId(o.subjects, mapped, o.assignments[i].subjectId),
                     title |-> o.assignments[i].title]]
        mappedSubjects == [i \in 1..Len(o.subjects) |->
                              [o.subjects[i] EXCEPT
                                  !.id = MappedId(o.subjects, mapped, o.subjects[i].id)]]
    IN [o EXCEPT !.planTasks = IF userId # Guest /\ Len(o.assignments) > 0 THEN rows ELSE <<>>,
                 !.savedSubjects = mappedSubjects,
                 !.completed = TRUE]

\* what an Onboarding step leaves alone
onboardingFrame == <<preferences, authUser, userPending, st, nx, epochRef, tick, tickEnv,
                     visEnv, store, sessions, streakUpdates, completions, remoteFailed,
                     remainingAtPause, stepsLeft, reloadsLeft,
                     today, rewards, studyDays, storeWritable, progress>>

\* the form moves to o in the step op
OnboardingStep(o, op) ==
    /\ ~onboarding.completed
    /\ onboarding' = o
    /\ lastOp' = op
    /\ UNCHANGED <<now, fineLeft>>
    /\ UNCHANGED onboardingFrame

InitOnboarding == InitSession

TypeSubject ==
    \E text \in SubjectTexts :
        /\ onboarding.step = 1
        /\ OnboardingStep([onboarding EXCEPT !.newSubject = text], "setNewSubject")

AddSubject ==
    /\ onboarding.step = 1
    /\ Len(onboarding.subjects) < MaxSubjects
    /\ OnboardingStep(addSubject(onboarding, now), "addSubject")

RemoveSubject ==
    \E id \in IdsOf(onboarding.subjects) :
        /\ onboarding.step = 1
        /\ OnboardingStep(removeSubject(onboarding, id), "removeSubject")

\* the Continue and Back buttons of the four steps
GoToStep ==
    \E to \in 1..4 :
        /\ \/ onboarding.step = 1 /\ to = 2 /\ Len(onboarding.subjects) > 0
           \/ onboarding.step = 2 /\ to \in {1, 3}
           \/ onboarding.step = 3 /\ to \in {2, 4}
           \/ onboarding.step = 4 /\ to = 3
        /\ OnboardingStep([onboarding EXCEPT !.step = to], "setStep")

TypeTitle ==
    \E text \in TitleTexts :
        /\ onboarding.step = 2
        /\ OnboardingStep([onboarding EXCEPT !.newAssignment.title = text], "setTitle")

ChooseSubject ==
    \E id \in IdsOf(onboarding.subjects) \cup {NoText} :
        /\ onboarding.step = 2
        /\ OnboardingStep([onboarding EXCEPT !.newAssignment.subjectId = id], "setSubjectId")

AddAssignment ==
    /\ onboarding.step = 2
    /\ onboarding.newAssignment.title # NoText
    /\ onboarding.newAssignment.subjectId # NoText
    /\ Len(onboarding.assignments) < MaxAssignments
    /\ OnboardingStep(addAssignment(onboarding, now), "addAssignment")

SetStudyMethod ==
    \E method \in {"pomodoro", "custom"} :
        /\ onboarding.step = 3
        /\ OnboardingStep([onboarding EXCEPT !.studyMethod = method], "setStudyMethod")

CompleteOnboarding ==
    \E inserted \in BOOLEAN :
        /\ onboarding.step = 4
        /\ OnboardingStep(completeOnboarding(onboarding, authUser, inserted),
                          "completeOnboarding")

\* time passes while the form is open
Elapse ==
    /\ ~onboarding.completed
    /\ fineLeft > 0
    /\ now' = now + StepFine
    /\ fineLeft' = fineLeft - 1
    /\ lastOp' = "Elapse"
    /\ UNCHANGED onboarding
    /\ UNCHANGED onboardingFrame

NextOnboarding ==
    \/ TypeSubject
    \/ AddSubject
    \/ RemoveSubject
    \/ GoToStep
    \/ TypeTitle
    \/ ChooseSubject
    \/ AddAssignment
    \/ SetStudyMethod
    \/ CompleteOnboarding
    \/ Elapse

SpecOnboarding == InitOnboarding /\ [][NextOnboarding]_vars

\* every assignment of the form names a subject of the form
AssignmentsReferToSubjects(o) ==
    \A i \in 1..Len(o.assignments) : o.assignments[i].subjectId \in IdsOf(o.subjects)

\* C29: whatever was added, removed and navigated before, when
\* completeOnboarding runs every assignment of the list names a subject that
\* is in the subject list, and the subject list is not empty.
C29_CompleteSeesConsistentLists ==
    [][lastOp' = "completeOnboarding" =>
          /\ AssignmentsReferToSubjects(onboarding)
          /\ Len(onboarding.subjects) > 0]_vars

\* what does hold: completeOnboarding never runs on an empty subject list
C29_CompleteSeesSubjects ==
    [][lastOp' = "completeOnboarding" => Len(onboarding.subjects) > 0]_vars

\* completeOnboarding ran on lists with an assignment and a subject
C29_Witness ==
    /\ lastOp = "completeOnboarding"
    /\ onboarding.assignments # <<>>
    /\ onboarding.subjects # <<>>

----------------------------------------------------------------------------
(***************************************************************************)
(* The Progress page (components/Progress).  Its only effect runs once,    *)
(* on mount: it reads the user's sessions and the user's row of the        *)
(* rewards table and computes the badges.  The callback is the one of the  *)
(* first render, so the state values it reads are the useState initial     *)
(* values, whatever it has set meanwhile.                                  *)
(***************************************************************************)

\* the current values of the stored streak rows the page is opened on
StoredCurrents == {6, 7, 29, 30}

\* what the query on pomodoro_sessions can return
SessionTables ==
    {<<>>,
     <<[duration |-> 25, completed |-> TRUE, startHour |-> 9]>>,
     <<[duration |-> 120, completed |-> TRUE, startHour |-> 7]>>}

\* initializeBadges, in its order
BadgeIds == <<"first-session", "week-streak", "early-bird", "marathon", "consistent", "century">>

initializeBadges == [i \in 1..Len(BadgeIds) |-> [id |-> BadgeIds[i], earned |-> FALSE, earnedDate |-> Null]]

\* the completed sessions of a list
RECURSIVE Completed(_)
Completed(rows) ==
    IF rows = <<>> THEN <<>>
    ELSE IF Head(rows).completed
         THEN <<Head(rows)>> \o Completed(Tail(rows))
         ELSE Completed(Tail(rows))

\* the switch of updateBadges
shouldEarn(id, rows, streak) ==
    LET completedSessions == Completed(rows)
    IN CASE id = "first-session" -> Len(completedSessions) >= 1
         [] id = "week-streak" -> streak.current >= 7
         [] id = "early-bird" ->
                \E i \in 1..Len(completedSessions) : completedSessions[i].startHour < 8
         [] id = "marathon" ->
                \E i \in 1..Len(completedSessions) : completedSessions[i].duration >= 120
         [] id = "consistent" -> streak.current >= 30
         [] id = "century" -> Len(completedSessions) >= 100
         [] OTHER -> FALSE

updateBadges(currentBadges, rows, streak, t) ==
    [i \in 1..Len(currentBadges) |->
        IF currentBadges[i].earned THEN currentBadges[i]
        ELSE IF shouldEarn(currentBadges[i].id, rows, streak)
             THEN [currentBadges[i] EXCEPT !.earned = TRUE, !.earnedDate = t]
             ELSE currentBadges[i]]

\* the callback of the mount effect, run in the render env, on the query results
\* sData and rData
loadProgress(p, env, uid, sData, rData, t) ==
    IF uid = Guest THEN [p EXCEPT !.pending = FALSE]
    ELSE LET shown == IF rData # <<>>
                      THEN [current |-> rData[1].current, longest |-> rData[1].longest,
                            lastStudyDate |-> rData[1].last_study_date]
                      ELSE p.streak
             currentBadges == IF Len(env.badges) # 0 THEN env.badges ELSE initializeBadges
             updatedBadges == updateBadges(currentBadges, sData, env.streak, t)
         IN [p EXCEPT !.pending = FALSE, !.sessions = sData, !.streak = shown,
                      !.badges = updatedBadges]

\* what a step of the Progress page leaves alone
progressFrame == <<now, preferences, authUser, userPending, st, nx, epochRef, tick, tickEnv,
                   visEnv, store, sessions, streakUpdates, completions, remoteFailed,
                   remainingAtPause, stepsLeft, fineLeft, reloadsLeft,
                   today, rewards, studyDays, storeWritable, onboarding>>

\* the user has a streak row from earlier days; the Progress page is closed
InitProgress ==
    /\ now = StartEpoch
    /\ lastOp = "Mount"
    /\ remainingAtPause = Null
    /\ stepsLeft = MaxSteps
    /\ fineLeft = MaxFine
    /\ reloadsLeft = MaxReloads
    /\ userPending = TRUE
    /\ preferences = SessionPrefs
    /\ authUser = SessionUser
    /\ today = 0
    /\ \E c \in StoredCurrents :
           rewards = <<[current |-> c, longest |-> c, last_study_date |-> today - 1]>>
    /\ studyDays = {}
    /\ onboarding = OnboardingInitial
    /\ progress = ProgressInitial
    /\ storeWritable = TRUE
    /\ LET m == MountTimer(SessionPrefs, SessionUser, StartEpoch, EmptyStore, TRUE)
       IN /\ st = m.st
          /\ nx = m.nx
          /\ epochRef = m.epochRef
          /\ tick = m.tick
          /\ tickEnv = m.st
          /\ visEnv = m.visEnv
          /\ store = m.store
          /\ sessions = m.sessions
          /\ streakUpdates = m.streakUpdates
          /\ completions = m.completions
          /\ remoteFailed = m.remoteFailed

\* the page is opened: first render, the effect issues its queries
OpenProgress ==
    /\ ~progress.open
    /\ progress' = [ProgressInitial EXCEPT !.open = TRUE, !.pending = TRUE]
    /\ lastOp' = "openProgress"
    /\ UNCHANGED progressFrame

\* the queries of the mount effect have answered
LoadProgress ==
    \E sData \in SessionTables :
        /\ progress.open
        /\ progress.pending
        /\ progress' = loadProgress(progress, ProgressInitial, authUser, sData, rewards, now)
        /\ lastOp' = "loadProgress"
        /\ UNCHANGED progressFrame

\* the user leaves the page
CloseProgress ==
    /\ progress.open
    /\ ~progress.pending
    /\ progress' = ProgressInitial
    /\ lastOp' = "closeProgress"
    /\ UNCHANGED progressFrame

NextProgress ==
    \/ OpenProgress
    \/ LoadProgress
    \/ CloseProgress
    \/ (~progress.open /\ CompleteFocus)
    \/ (~progress.open /\ NextDay)

SpecProgress == InitProgress /\ [][NextProgress]_vars

\* the badge id is earned in the list
Earned(list, id) == \E i \in 1..Len(list) : list[i].id = id /\ list[i].earned

\* the load that has just run read a streak row whose current is at least n
LoadedStreakOf(n) ==
    /\ lastOp' = "loadProgress"
    /\ rewards # <<>>
    /\ rewards[1].current >= n

\* C30: a load of the Progress page that reads a stored streak whose current
\* value is at least 7 (at least 30) yields a badge list in which 'Week
\* Warrior' ('Consistency King') is earned.
C30_LoadEarnsStreakBadges ==
    [][/\ LoadedStreakOf(7) => Earned(progress'.badges, "week-streak")
       /\ LoadedStreakOf(30) => Earned(progress'.badges, "consistent")]_vars

\* what does hold: the load shows the stored streak, and it computes the
\* badges that depend on the sessions
C30_LoadShowsStoredStreak ==
    [][LoadedStreakOf(0) =>
          /\ progress'.streak.current = rewards[1].current
          /\ Earned(progress'.badges, "first-session") = (progress'.sessions # <<>>)]_vars

\* a load has read a streak of 30 days or more
C30_Witness ==
    /\ lastOp = "loadProgress"
    /\ progress.streak.current >= 30

====
